---- MODULE Spec2Model ----
(***************************************************************************)
(* Process-control engine of the debugger (package proctl): the breakpoint *)
(* engine, per-thread Step/Continue/Next, the process-wide drivers         *)
(* Continue/Step/Next wrapped by run, RequestManualStop and the ptrace     *)
(* trap-wait loop, composed with a small traced target.                    *)
(***************************************************************************)
EXTENDS Integers, Sequences, FiniteSets, TLC

(***************************************************************************)
(* Bounds of the model.                                                    *)
(***************************************************************************)
\* facade calls made in one session
MaxOps == 4
\* backend failures injected in one session
MaxFaults == 1
ConcOps == 2
\* facade calls made on a target that spawns its second thread
ThreadOps == 3

(***************************************************************************)
(* The traced target: a text segment of one-byte instructions.             *)
(*   1      runtime.futex   (a thread parked here is "blocked")            *)
(*   2..5   main.foo        rows 2,3,4,5; 5 returns to the caller          *)
(*   6      main.bar        (never executed; first row past foo's end)     *)
(*   7..8   main.main       7 is foo's return address; 8 spawns the second *)
(*                          thread of a target that has only one           *)
(*   9..10  runtime.breakpoint  9 is an INT3 of the target itself          *)
(*   11..12 main.tail       12 exits the thread                            *)
(*   14..17 main.lib        (never executed)                               *)
(***************************************************************************)
Layout ==
  [futex |-> 1, foo |-> 2, fooEnd |-> 6, bar |-> 6, main |-> 7, spawn |-> 8,
   mainEnd |-> 9,
   rtbp |-> 9, rtbpEnd |-> 11, tail |-> 11, exit |-> 12, tailEnd |-> 13,
   lib |-> 14, last |-> 17]

Addr == 0..Layout.last

\* the trap instruction (INT3) written for a software breakpoint
TrapByte == 204

\* the text segment as loaded, before any breakpoint is written
OrigByte(a) ==
  IF a = Layout.rtbp THEN TrapByte ELSE 100 + a

\* control flow of the target: where the instruction at a leaves the pc
Succ(a) ==
  IF a = Layout.foo + 3 THEN Layout.main
  ELSE IF a >= Layout.tailEnd THEN a
  ELSE a + 1

Pid == 1

Tids == {1, 2}

\* the thread the target spawns
Child == 2

\* the host kernels the engine is built for
Hosts == {"ptrace", "mach"}

ExitStatuses == {0, 7}

HWSlots == 0..3

\* addresses the user passes to Break and Clear
UserAddrs == {2, 3, 7}

(***************************************************************************)
(* Symbolic context: frame table, line table, symbol table.                *)
(***************************************************************************)
\* frame.FrameDescriptionEntries: [begin, end) of each function
FDEs ==
  { [begin |-> Layout.futex, end |-> Layout.foo, name |-> "runtime.futex"],
    [begin |-> Layout.foo, end |-> Layout.fooEnd, name |-> "main.foo"],
    [begin |-> Layout.bar, end |-> Layout.main, name |-> "main.bar"],
    [begin |-> Layout.main, end |-> Layout.mainEnd, name |-> "main.main"],
    [begin |-> Layout.rtbp, end |-> Layout.rtbpEnd, name |-> "runtime.breakpoint"],
    [begin |-> Layout.tail, end |-> Layout.tailEnd, name |-> "main.tail"],
    [begin |-> Layout.lib, end |-> Layout.last + 1, name |-> "main.lib"] }

NoFDE == [begin |-> 0, end |-> 0, name |-> "none"]

FDEForPC(pc) ==
  IF \E f \in FDEs : f.begin <= pc /\ pc < f.end
    THEN CHOOSE f \in FDEs : f.begin <= pc /\ pc < f.end
    ELSE NoFDE

\* gosym.Table.PCToFunc
PCToFunc(pc) == FDEForPC(pc).name

\* line.DebugLineInfo: the rows of the line table, in address order.
\* The row at 4 returns to line 10 (a loop back edge): its Delta is negative.
LineRows ==
  << [Address |-> 1, Line |-> 1, Delta |-> 1],
     [Address |-> 2, Line |-> 10, Delta |-> 1],
     [Address |-> 3, Line |-> 11, Delta |-> 1],
     [Address |-> 4, Line |-> 10, Delta |-> -1],
     [Address |-> 5, Line |-> 12, Delta |-> 2],
     [Address |-> 6, Line |-> 30, Delta |-> 1],
     [Address |-> 7, Line |-> 20, Delta |-> 1],
     [Address |-> 8, Line |-> 21, Delta |-> 1],
     [Address |-> 9, Line |-> 40, Delta |-> 1],
     [Address |-> 10, Line |-> 41, Delta |-> 1],
     [Address |-> 11, Line |-> 22, Delta |-> 1],
     [Address |-> 12, Line |-> 23, Delta |-> 1],
     [Address |-> 13, Line |-> 24, Delta |-> 1] >>

RowIdx == 1..Len(LineRows)

\* the row holding pc: the last row whose address is not above pc
LocationInfoForPC(pc) ==
  LET i == CHOOSE i \in RowIdx :
             /\ LineRows[i].Address <= pc
             /\ \A j \in RowIdx : LineRows[j].Address <= pc => j <= i
  IN LineRows[i]

\* the first row of a source line
LocationInfoForFileLine(ln) ==
  LET i == CHOOSE i \in RowIdx :
             /\ LineRows[i].Line = ln
             /\ \A j \in RowIdx : LineRows[j].Line = ln => i <= j
  IN LineRows[i]

\* the row after the one at addr (the last row is its own successor)
NextLocation(addr) ==
  IF \E i \in RowIdx : LineRows[i].Address > addr
    THEN LET i == CHOOSE i \in RowIdx :
                    /\ LineRows[i].Address > addr
                    /\ \A j \in RowIdx : LineRows[j].Address > addr => i <= j
         IN LineRows[i]
    ELSE LineRows[Len(LineRows)]

\* the saved return address on the stack of a thread executing at pc
ReturnAddressFromOffset(pc) ==
  IF FDEForPC(pc).name = "main.foo" THEN Layout.main ELSE Layout.exit

(***************************************************************************)
(* Errors.                                                                 *)
(***************************************************************************)
Err(k) == [kind |-> k, Pid |-> 0, Status |-> 0]

NilErr == Err("nil")

ProcessExitedError(p, s) == [kind |-> "ProcessExited", Pid |-> p, Status |-> s]

(***************************************************************************)
(* Breakpoints.                                                            *)
(***************************************************************************)
NoBP == [ID |-> 0, Addr |-> 0, Temp |-> FALSE, OriginalData |-> 0]

newBreakpoint(id, addr, data) ==
  [ID |-> id, Addr |-> addr, Temp |-> FALSE, OriginalData |-> data]

NilRef == [kind |-> "nil", at |-> 0]

(***************************************************************************)
(* Wait statuses reported by wait4.                                        *)
(***************************************************************************)
WS(k, c) == [kind |-> k, code |-> c]

NoStatus == WS("none", 0)

(***************************************************************************)
(* State.  The fields of DebuggedProcess and ThreadContext, the traced     *)
(* target as the kernel holds it, and each caller's position in a driver.  *)
(***************************************************************************)
VARIABLES
  host,                 \* the host kernel of this build
  mem,                  \* target memory: Addr -> byte
  BreakPoints,          \* dbp.BreakPoints: Addr -> BreakPoint (NoBP: no entry)
  HWBreakPoints,        \* dbp.HWBreakPoints: slot -> BreakPoint (NoBP: nil)
  breakpointIDCounter,  \* dbp.breakpointIDCounter
  Threads,              \* dbp.Threads: the ids in the registry
  CurrentThread,        \* dbp.CurrentThread (its id)
  Status,               \* ThreadContext.Status of each registry entry
  running,              \* dbp.running
  halt,                 \* dbp.halt
  tpc,                  \* program counter of each kernel thread
  tstate,               \* "stopped", "running", "exited" or "unborn"
  pend,                 \* wait status of each thread not yet collected
  rf,                   \* resume flag: the thread reported a hardware trap at its pc
  onBp,                 \* the software breakpoint a thread stopped on and has not left
                        \* (negated once Clear has removed that breakpoint)
  firstExec,            \* what the thread executed first after that stop
  stepLog,              \* the last per-thread Step that cleared a breakpoint
  callLog,              \* what the driver call in progress has dispatched
  seen,                 \* what trapWait returned to the driver call in progress
  stopReq,              \* RequestManualStop found Continue blocked, no breakpoint set
  cpc,                  \* each caller's position: "idle" or inside a driver
  ran,                  \* Next's count of stepped threads, per caller
  cnt,                  \* Next's trap loop index, per caller
  res,                  \* result of each caller's last facade call
  lastOp,               \* each caller's last facade call
  atCall,               \* the user's breakpoints when the last driver call was made
  planted,              \* what the per-thread Next calls of the last Next planted
  ops,                  \* facade calls made
  faults                \* backend failures injected

vars ==
  << host, mem, BreakPoints, HWBreakPoints, breakpointIDCounter, Threads, CurrentThread,
     Status, running, halt, tpc, tstate, pend, rf, onBp, firstExec, stepLog,
     callLog, seen, stopReq, cpc, ran, cnt, res, lastOp, atCall, planted, ops, faults >>

\* the part of the state the engine's functions read and write
World ==
  [host |-> host, mem |-> mem, BreakPoints |-> BreakPoints, HWBreakPoints |-> HWBreakPoints,
   breakpointIDCounter |-> breakpointIDCounter, Threads |-> Threads,
   CurrentThread |-> CurrentThread, Status |-> Status, running |-> running,
   halt |-> halt, tpc |-> tpc, tstate |-> tstate, pend |-> pend, rf |-> rf,
   onBp |-> onBp, firstExec |-> firstExec, stepLog |-> stepLog, callLog |-> callLog,
   planted |-> planted, seen |-> seen, stopReq |-> stopReq]

Install(w) ==
  /\ host' = w.host
  /\ mem' = w.mem
  /\ BreakPoints' = w.BreakPoints
  /\ HWBreakPoints' = w.HWBreakPoints
  /\ breakpointIDCounter' = w.breakpointIDCounter
  /\ Threads' = w.Threads
  /\ CurrentThread' = w.CurrentThread
  /\ Status' = w.Status
  /\ running' = w.running
  /\ halt' = w.halt
  /\ tpc' = w.tpc
  /\ tstate' = w.tstate
  /\ pend' = w.pend
  /\ rf' = w.rf
  /\ onBp' = w.onBp
  /\ firstExec' = w.firstExec
  /\ stepLog' = w.stepLog
  /\ callLog' = w.callLog
  /\ planted' = w.planted
  /\ seen' = w.seen
  /\ stopReq' = w.stopReq

R(w, e) == [w |-> w, err |-> e]

\* hit: the thread's last stop was the trap of the breakpoint Step cleared
NoStepLog ==
  [cleared |-> 0, armed |-> TRUE, path |-> "none", id |-> 0, hit |-> FALSE]

\* trap: the thread and pc of the trap Continue dispatched; halts: the
\* threads DebuggedProcess.Halt called Halt on; rewound: Next's last rewind;
\* cloned: the thread a clone event made trapWait add; stepped: the threads
\* whose per-thread Next returned nil in Next's thread loop; stopAsked:
\* RequestManualStop ran while this call was a Continue past its thread loop
NoCallLog ==
  [trap |-> [tid |-> 0, pc |-> 0], halts |-> {},
   rewound |-> [tid |-> 0, at |-> 0, to |-> 0], cloned |-> 0,
   stepped |-> {}, stopAsked |-> FALSE]

(***************************************************************************)
(* The target: one instruction of thread t.                                *)
(***************************************************************************)
HWAt(w, a) == \E i \in HWSlots : w.HWBreakPoints[i] # NoBP /\ w.HWBreakPoints[i].Addr = a

\* After the instruction the thread is stopped with a trap status pending if
\* it trapped or was single-stepped (stepping), else it keeps running.
ExecOne(w, t, stepping, status) ==
  LET pc == w.tpc[t]
      was == w.onBp[t]
      stopT == [w EXCEPT !.tstate[t] = "stopped", !.pend[t] = WS("trap", 0)]
  IN
  IF HWAt(w, pc) /\ ~w.rf[t]
    THEN \* instruction breakpoint: reported before the instruction executes
         [stopT EXCEPT !.rf[t] = TRUE]
  ELSE IF w.mem[pc] = TrapByte
    THEN \* INT3: reported with the pc past the trap byte
         [stopT EXCEPT !.tpc[t] = pc + 1, !.rf[t] = FALSE,
                       !.onBp[t] = IF w.BreakPoints[pc] # NoBP THEN pc ELSE 0,
                       !.firstExec[t] = IF was <= 0 THEN @
                                        ELSE IF was = pc THEN "trap" ELSE "skip"]
  ELSE IF pc = Layout.exit
    THEN IF t = Pid
           THEN [w EXCEPT !.tstate = [u \in Tids |-> "exited"],
                          !.pend = [u \in Tids |-> IF u = Pid THEN WS("exit", status)
                                                   ELSE NoStatus],
                          !.onBp[t] = 0]
           ELSE [w EXCEPT !.tstate[t] = "exited", !.pend[t] = WS("exit", status),
                          !.onBp[t] = 0]
  ELSE LET moved == [w EXCEPT !.tpc[t] = Succ(pc), !.rf[t] = FALSE, !.onBp[t] = 0,
                              !.firstExec[t] = IF was <= 0 THEN @
                                               ELSE IF was = pc THEN "orig" ELSE "skip"]
       IN IF pc = Layout.spawn /\ w.tstate[Child] = "unborn"
            THEN IF w.host = "ptrace"
                   THEN \* the parent stops with a clone event, the child is
                        \* born stopped by its initial SIGSTOP
                        [moved EXCEPT !.tstate[t] = "stopped",
                                      !.pend[t] = WS("clone", Child),
                                      !.tstate[Child] = "stopped",
                                      !.pend[Child] = WS("stop", 0),
                                      !.tpc[Child] = Layout.foo]
                   ELSE \* no event: the child just runs
                        [moved EXCEPT !.tstate[t] = IF stepping THEN "stopped" ELSE @,
                                      !.pend[t] = IF stepping THEN WS("trap", 0) ELSE @,
                                      !.tstate[Child] = "running",
                                      !.tpc[Child] = Layout.foo]
          ELSE IF stepping
            THEN [moved EXCEPT !.tstate[t] = "stopped", !.pend[t] = WS("trap", 0)]
            ELSE moved

(***************************************************************************)
(* Platform backend, per thread.                                           *)
(***************************************************************************)
\* A backend failure injected into one facade call: operation kind of
\* thread tid fails ("none": nothing fails).
NoFault == [kind |-> "none", tid |-> 0]

Fails(f, kind, t) == f.kind = kind /\ f.tid = t

\* registers(thread): fails once the thread is gone
RegistersFail(w, t) == w.tstate[t] = "exited"

\* Registers.SetPC
SetPC(w, t, pc) == [w EXCEPT !.tpc[t] = pc]

\* ThreadContext.singleStep: PTRACE_SINGLESTEP, then wait for the thread.
\* f is the backend failure injected into this call.
singleStep(w, t, f) ==
  IF Fails(f, "step", t) \/ w.tstate[t] = "exited"
    THEN R(w, Err("Backend"))
    ELSE LET x == ExecOne(w, t, TRUE, 0)
         IN R([x EXCEPT !.pend[t] = NoStatus], NilErr)

\* ThreadContext.resume: PTRACE_CONT; a status not yet collected is dropped
resume(w, t, f) ==
  IF Fails(f, "resume", t) \/ w.tstate[t] = "exited"
    THEN R(w, Err("ESRCH"))
    ELSE R([w EXCEPT !.tstate[t] = "running", !.pend[t] = NoStatus], NilErr)

\* ThreadContext.Halt: no-op on a stopped thread, else SIGSTOP
threadHalt(w, t) ==
  IF w.tstate[t] = "stopped" THEN R(w, NilErr)
  ELSE IF w.tstate[t] = "exited" THEN R(w, Err("Backend"))
  ELSE R([w EXCEPT !.tstate[t] = "stopped", !.pend[t] = WS("stop", 0)], NilErr)

\* ThreadContext.blocked: parked in the runtime (futex)
blocked(w, t) == w.tstate[t] # "exited" /\ PCToFunc(w.tpc[t]) = "runtime.futex"

(***************************************************************************)
(* Breakpoint engine.                                                      *)
(***************************************************************************)
\* any breakpoint, hardware or software, covers addr
BreakpointExists(w, addr) == HWAt(w, addr) \/ w.BreakPoints[addr] # NoBP

\* the breakpoint covering addr (NoBP if none)
BreakpointAt(w, addr) ==
  IF HWAt(w, addr)
    THEN w.HWBreakPoints[CHOOSE i \in HWSlots : w.HWBreakPoints[i] # NoBP
                                               /\ w.HWBreakPoints[i].Addr = addr]
    ELSE w.BreakPoints[addr]

\* dbp.BreakPoints[a]: the map lookup (NoBP when a has no entry)
swBP(w, a) == IF a \in Addr THEN w.BreakPoints[a] ELSE NoBP

\* setBreakpoint without its check that the address is free
setBreakpointUnchecked(w, tid, addr) ==
  LET id == w.breakpointIDCounter + 1 IN
  IF \E i \in HWSlots : w.HWBreakPoints[i] = NoBP
    THEN LET i == CHOOSE i \in HWSlots :
                    /\ w.HWBreakPoints[i] = NoBP
                    /\ \A j \in HWSlots : w.HWBreakPoints[j] = NoBP => i <= j
         IN [w |-> [w EXCEPT !.HWBreakPoints[i] = newBreakpoint(id, addr, 0),
                             !.breakpointIDCounter = id],
             err |-> NilErr, ref |-> [kind |-> "hw", at |-> i]]
    ELSE [w |-> [w EXCEPT !.BreakPoints[addr] = newBreakpoint(id, addr, w.mem[addr]),
                          !.mem[addr] = TrapByte,
                          !.breakpointIDCounter = id],
          err |-> NilErr, ref |-> [kind |-> "sw", at |-> addr]]

\* setBreakpoint taking the last free hardware slot instead of the first
setBreakpointLastSlot(w, tid, addr) ==
  IF BreakpointExists(w, addr)
    THEN [w |-> w, err |-> Err("BreakPointExists"), ref |-> NilRef]
  ELSE LET id == w.breakpointIDCounter + 1 IN
    IF \E i \in HWSlots : w.HWBreakPoints[i] = NoBP
      THEN LET i == CHOOSE i \in HWSlots :
                      /\ w.HWBreakPoints[i] = NoBP
                      /\ \A j \in HWSlots : w.HWBreakPoints[j] = NoBP => j <= i
           IN [w |-> [w EXCEPT !.HWBreakPoints[i] = newBreakpoint(id, addr, 0),
                               !.breakpointIDCounter = id],
               err |-> NilErr, ref |-> [kind |-> "hw", at |-> i]]
      ELSE [w |-> [w EXCEPT !.BreakPoints[addr] = newBreakpoint(id, addr, w.mem[addr]),
                            !.mem[addr] = TrapByte,
                            !.breakpointIDCounter = id],
            err |-> NilErr, ref |-> [kind |-> "sw", at |-> addr]]

\* setBreakpoint: a free hardware slot if there is one, else a trap byte
setBreakpoint(w, tid, addr) ==
  IF BreakpointExists(w, addr)
    THEN [w |-> w, err |-> Err("BreakPointExists"), ref |-> NilRef]
  ELSE LET id == w.breakpointIDCounter + 1 IN
    IF \E i \in HWSlots : w.HWBreakPoints[i] = NoBP
      THEN LET i == CHOOSE i \in HWSlots :
                      /\ w.HWBreakPoints[i] = NoBP
                      /\ \A j \in HWSlots : w.HWBreakPoints[j] = NoBP => i <= j
           IN [w |-> [w EXCEPT !.HWBreakPoints[i] = newBreakpoint(id, addr, 0),
                               !.breakpointIDCounter = id],
               err |-> NilErr, ref |-> [kind |-> "hw", at |-> i]]
      ELSE [w |-> [w EXCEPT !.BreakPoints[addr] = newBreakpoint(id, addr, w.mem[addr]),
                            !.mem[addr] = TrapByte,
                            !.breakpointIDCounter = id],
            err |-> NilErr, ref |-> [kind |-> "sw", at |-> addr]]

\* clearBreakpoint: free the slot, or restore the original byte
clearBreakpoint(w, tid, addr) ==
  IF HWAt(w, addr)
    THEN LET i == CHOOSE i \in HWSlots : w.HWBreakPoints[i] # NoBP
                                         /\ w.HWBreakPoints[i].Addr = addr
         IN R([w EXCEPT !.HWBreakPoints[i] = NoBP], NilErr)
  ELSE IF w.BreakPoints[addr] # NoBP
    THEN R([w EXCEPT !.mem[addr] = w.BreakPoints[addr].OriginalData,
                     !.BreakPoints[addr] = NoBP], NilErr)
  ELSE R(w, Err("NoSuchBreakpoint"))

\* DebuggedProcess.Break
Break(w, addr) == setBreakpoint(w, w.CurrentThread, addr)

\* Clear that deletes the map entry of a software breakpoint itself and
\* leaves the trap byte in the target
ClearKeepsTrapByte(w, addr) ==
  IF HWAt(w, addr) \/ w.BreakPoints[addr] = NoBP
    THEN clearBreakpoint(w, w.CurrentThread, addr)
    ELSE R([w EXCEPT !.BreakPoints[addr] = NoBP], NilErr)

\* DebuggedProcess.Clear
Clear(w, addr) == clearBreakpoint(w, w.CurrentThread, addr)

\* bp.Temp = true through the pointer Break returned
SetTemp(w, ref) ==
  IF ref.kind = "hw" THEN [w EXCEPT !.HWBreakPoints[ref.at].Temp = TRUE]
  ELSE IF ref.kind = "sw" THEN [w EXCEPT !.BreakPoints[ref.at].Temp = TRUE]
  ELSE w

(***************************************************************************)
(* Per-thread Step, Continue and Next.                                     *)
(***************************************************************************)
\* ThreadContext.Step
threadStep(w, t, f) ==
  LET bp == swBP(w, w.tpc[t] - 1)
      hit == w.onBp[t] \in {bp.Addr, -bp.Addr}
      \* the deferred re-arm has run: its error overwrites the result
      rearmed(s, b) ==
        R([b.w EXCEPT !.stepLog =
             [cleared |-> bp.Addr, armed |-> BreakpointExists(b.w, bp.Addr),
              path |-> IF s.err = NilErr THEN "ok" ELSE "step", id |-> bp.ID,
              hit |-> hit]],
          b.err)
      stepped(s) == rearmed(s, Break(s.w, bp.Addr))
      cleared(c) ==
        IF c.err # NilErr THEN R(c.w, c.err)
        ELSE IF Fails(f, "setpc", t)
          THEN \* returns before the re-arm is deferred
               R([c.w EXCEPT !.stepLog = [cleared |-> bp.Addr, armed |-> FALSE,
                                          path |-> "setpc", id |-> bp.ID,
                                          hit |-> hit]],
                 Err("SetRegisters"))
        ELSE stepped(singleStep(SetPC(c.w, t, bp.Addr), t, f))
      plain(s) ==
        IF s.err # NilErr
          THEN R([s.w EXCEPT !.stepLog = [NoStepLog EXCEPT !.path = "step"]],
                 Err("StepFailed"))
          ELSE R(s.w, NilErr)
  IN
  IF RegistersFail(w, t) THEN R(w, Err("Registers"))
  ELSE IF bp # NoBP THEN cleared(Clear(w, bp.Addr))
  ELSE plain(singleStep(w, t, f))

\* ThreadContext.Continue
threadContinue(w, t, f) ==
  LET stepped(s) ==
        IF s.err # NilErr THEN R(s.w, Err("CouldNotStep")) ELSE resume(s.w, t, f)
  IN
  IF RegistersFail(w, t) THEN R(w, Err("Registers"))
  ELSE IF swBP(w, w.tpc[t] - 1) # NoBP THEN stepped(threadStep(w, t, f))
  ELSE resume(w, t, f)

\* the row loop returning the BreakPointExists error instead of passing it
RECURSIVE nextScanStrict(_, _, _, _, _)
nextScanStrict(w, t, pc, fde, addr) ==
  LET ret(b) == R(SetTemp(b.w, b.ref), NilErr)
      row(loc, b) ==
        IF b.err # NilErr THEN R(b.w, b.err)
        ELSE nextScanStrict(SetTemp(b.w, b.ref), t, pc, fde, loc.Address)
      at(loc) ==
        IF loc.Address = pc THEN nextScanStrict(w, t, pc, fde, loc.Address)
        ELSE IF loc.Address >= fde.end
          THEN ret(Break(w, ReturnAddressFromOffset(pc)))
        ELSE row(loc, Break(w, loc.Address))
  IN at(NextLocation(addr))

\* the row loop taking the row at fde.End() for a row of the function
RECURSIVE nextScanPastEnd(_, _, _, _, _)
nextScanPastEnd(w, t, pc, fde, addr) ==
  LET ret(b) == R(SetTemp(b.w, b.ref), NilErr)
      row(loc, b) ==
        IF b.err # NilErr
          THEN IF b.err.kind = "BreakPointExists"
                 THEN nextScanPastEnd(w, t, pc, fde, loc.Address)
                 ELSE R(b.w, b.err)
          ELSE nextScanPastEnd(SetTemp(b.w, b.ref), t, pc, fde, loc.Address)
      at(loc) ==
        IF loc.Address = pc THEN nextScanPastEnd(w, t, pc, fde, loc.Address)
        ELSE IF loc.Address > fde.end
          THEN ret(Break(w, ReturnAddressFromOffset(pc)))
        ELSE row(loc, Break(w, loc.Address))
  IN at(NextLocation(addr))

\* the row loop of ThreadContext.Next, from the row at addr
RECURSIVE nextScan(_, _, _, _, _)
nextScan(w, t, pc, fde, addr) ==
  LET ret(b) == R(SetTemp(b.w, b.ref), NilErr)
      row(loc, b) ==
        IF b.err # NilErr
          THEN IF b.err.kind = "BreakPointExists"
                 THEN nextScan(w, t, pc, fde, loc.Address)
                 ELSE R(b.w, b.err)
          ELSE nextScan(SetTemp(b.w, b.ref), t, pc, fde, loc.Address)
      at(loc) ==
        IF loc.Address = pc THEN nextScan(w, t, pc, fde, loc.Address)
        ELSE IF loc.Address >= fde.end
          THEN ret(Break(w, ReturnAddressFromOffset(pc)))
        ELSE row(loc, Break(w, loc.Address))
  IN at(NextLocation(addr))

\* addresses holding a temporary breakpoint
TempAddrs(w) ==
  {a \in Addr : BreakpointAt(w, a) # NoBP /\ BreakpointAt(w, a).Temp}

\* addresses holding any breakpoint
Covered(w) == {a \in Addr : BreakpointExists(w, a)}

\* ThreadContext.Next
threadNext(w, t, f) ==
  LET bp == swBP(w, w.tpc[t] - 1)
      logged(pc, n) ==
        [n.w EXCEPT !.planted[t] =
           [called |-> TRUE, pc |-> pc, before |-> Covered(w),
            temps |-> TempAddrs(n.w) \ TempAddrs(w)]]
      scanned(pc, n) ==
        IF n.err # NilErr THEN R(logged(pc, n), n.err)
        ELSE threadContinue(logged(pc, n), t, f)
      from(pc, fde, l0) ==
        IF fde = NoFDE THEN R(w, Err("NoFDE"))
        ELSE scanned(pc, nextScan(w, t, pc, fde,
                                  IF l0.Delta < 0
                                    THEN LocationInfoForFileLine(l0.Line).Address
                                    ELSE l0.Address))
      at(pc) == from(pc, FDEForPC(pc), LocationInfoForPC(pc))
  IN
  IF RegistersFail(w, t) THEN R(w, Err("Registers"))
  ELSE at(IF bp # NoBP THEN bp.Addr ELSE w.tpc[t])

(***************************************************************************)
(* Process-wide helpers.                                                   *)
(***************************************************************************)
\* the orders in which a range over the dbp.Threads map may visit it
Orders(S) ==
  {o \in [1..Cardinality(S) -> S] : \A i, j \in 1..Cardinality(S) : o[i] = o[j] => i = j}

\* DebuggedProcess.Halt: halt each thread, stop at the first failure
RECURSIVE haltLoop(_, _, _)
haltLoop(w, o, i) ==
  LET halted(h) == IF h.err # NilErr THEN h ELSE haltLoop(h.w, o, i + 1)
  IN IF i > Len(o) THEN R(w, NilErr)
     ELSE halted(threadHalt([w EXCEPT !.callLog.halts = @ \cup {o[i]}], o[i]))

Halt(w, o) == haltLoop(w, o, 1)

\* the deferred function of Next: clear every temporary of dbp.BreakPoints
RECURSIVE clearTemps(_, _)
clearTemps(w, as) ==
  IF as = {} THEN w
  ELSE LET a == CHOOSE a \in as : TRUE
       IN clearTemps(Clear(w, a).w, as \ {a})

nextCleanup(w) ==
  clearTemps(w, {a \in Addr : w.BreakPoints[a] # NoBP /\ w.BreakPoints[a].Temp})

\* the thread loop of DebuggedProcess.Next; returns the count of stepped threads
RECURSIVE nextLoop(_, _, _, _, _)
nextLoop(w, o, i, f, n) ==
  LET continued(c) ==
        IF c.err # NilErr THEN [w |-> c.w, err |-> c.err, ran |-> n]
        ELSE nextLoop(c.w, o, i + 1, f, n)
      stepped(x) ==
        IF x.err # NilErr /\ x.err.kind # "ESRCH"
          THEN [w |-> x.w, err |-> x.err, ran |-> n]
        ELSE IF x.err # NilErr
          THEN \* no such process: not returned, and ran++ still runs
               nextLoop(x.w, o, i + 1, f, n + 1)
        ELSE nextLoop([x.w EXCEPT !.callLog.stepped = @ \cup {o[i]}],
                      o, i + 1, f, n + 1)
  IN
  IF i > Len(o) THEN [w |-> w, err |-> NilErr, ran |-> n]
  ELSE IF blocked(w, o[i]) THEN continued(threadContinue(w, o[i], f))
  ELSE stepped(threadNext(w, o[i], f))

\* the thread loop of DebuggedProcess.Continue
RECURSIVE continueLoop(_, _, _, _)
continueLoop(w, o, i, f) ==
  LET continued(c) == IF c.err # NilErr THEN c ELSE continueLoop(c.w, o, i + 1, f)
  IN IF i > Len(o) THEN R(w, NilErr) ELSE continued(threadContinue(w, o[i], f))

\* the thread loop of DebuggedProcess.Step
RECURSIVE stepLoop(_, _, _, _)
stepLoop(w, o, i, f) ==
  LET stepped(x) == IF x.err # NilErr THEN x ELSE stepLoop(x.w, o, i + 1, f)
  IN
  IF i > Len(o) THEN R(w, NilErr)
  ELSE IF blocked(w, o[i]) THEN stepLoop(w, o, i + 1, f)
  ELSE stepped(threadStep(w, o[i], f))

\* run swallowing the exit of the process as it swallows a manual stop
runResultSwallowsExit(e) ==
  IF e.kind \in {"ManualStop", "ProcessExited"} THEN NilErr ELSE e

\* run: what it returns for the error fn returned
runResult(e) == IF e.kind = "ManualStop" THEN NilErr ELSE e

\* run: the deferred reset of running
runExit(w) == [w EXCEPT !.running = FALSE]

\* run: entry
runEnter(w) == [w EXCEPT !.running = TRUE, !.halt = FALSE]

\* addThread(tid, false): a registry entry with no status yet
addThread(w, tid) ==
  IF tid \in w.Threads THEN w
  ELSE [w EXCEPT !.Threads = @ \cup {tid}, !.Status[tid] = NoStatus,
                 !.CurrentThread = IF @ = 0 THEN tid ELSE @]

\* the loop of trapWait taking a clone event for an ordinary trap
trapWaitTurnReturnsOnClone(w, wpid) ==
  LET st == w.pend[wpid]
      w1 == [w EXCEPT !.pend[wpid] = NoStatus,
                      !.Status[wpid] = IF wpid \in w.Threads THEN st ELSE @]
  IN
  IF st.kind = "exit" /\ wpid = Pid
    THEN [w |-> [w1 EXCEPT !.seen = "exit"], out |-> "err",
          err |-> ProcessExitedError(wpid, st.code)]
  ELSE IF st.kind \in {"trap", "clone"}
    THEN [w |-> [w1 EXCEPT !.seen = "trap"], out |-> "trap", err |-> NilErr]
  ELSE IF st.kind = "stop" /\ w.halt
    THEN [w |-> [w1 EXCEPT !.seen = "stop"], out |-> "err", err |-> Err("ManualStop")]
  ELSE [w |-> w1, out |-> "again", err |-> NilErr]

\* One turn of the loop of trapWait on the status wait4 returned for wpid:
\* "trap" returns wpid, an error returns it, "again" waits once more.
trapWaitTurn(w, wpid) ==
  LET st == w.pend[wpid]
      w1 == [w EXCEPT !.pend[wpid] = NoStatus,
                      !.Status[wpid] = IF wpid \in w.Threads THEN st ELSE @]
      \* a clone event: register the new thread, continue it and its parent
      parentOn(p) ==
        IF p.err # NilErr
          THEN [w |-> p.w, out |-> "err", err |-> Err("CouldNotContinue")]
          ELSE [w |-> p.w, out |-> "again", err |-> NilErr]
      childOn(c) ==
        IF c.err # NilErr
          THEN [w |-> c.w, out |-> "err", err |-> Err("CouldNotContinue")]
          ELSE parentOn(threadContinue(c.w, wpid, NoFault))
      added(a) == childOn(threadContinue(a, st.code, NoFault))
  IN
  IF st.kind = "exit" /\ wpid = Pid
    THEN [w |-> [w1 EXCEPT !.seen = "exit"], out |-> "err",
          err |-> ProcessExitedError(wpid, st.code)]
  ELSE IF st.kind = "clone"
    THEN added([addThread(w1, st.code) EXCEPT !.callLog.cloned = st.code])
  ELSE IF st.kind = "trap"
    THEN [w |-> [w1 EXCEPT !.seen = "trap"], out |-> "trap", err |-> NilErr]
  ELSE IF st.kind = "stop" /\ w.halt
    THEN [w |-> [w1 EXCEPT !.seen = "stop"], out |-> "err", err |-> Err("ManualStop")]
  ELSE [w |-> w1, out |-> "again", err |-> NilErr]

\* updateThreadList (mach host): add every thread of the task that is not
\* in the registry; nothing is added when the task's threads cannot be listed
RECURSIVE addThreads(_, _)
addThreads(w, ts) ==
  IF ts = {} THEN w
  ELSE LET t == CHOOSE t \in ts : TRUE
       IN addThreads(addThread(w, t), ts \ {t})

updateThreadList(w, f) ==
  IF Fails(f, "threads", 0) THEN w
  ELSE addThreads(w, {t \in Tids : w.tstate[t] \in {"stopped", "running"}})

\* trapWait (mach host) on the port that fired: the notification port for
\* the exit of the task, else the exception port of thread `port`.  The
\* result of updateThreadList is not looked at.
trapWaitMach(w, port, f) ==
  LET st == w.pend[port]
      w1 == [w EXCEPT !.pend[port] = NoStatus]
      switched(u) ==
        [u EXCEPT !.seen = "trap",
                  !.CurrentThread = IF port = @ THEN @
                                    ELSE IF port \in u.Threads THEN port ELSE 0]
  IN
  IF st.kind = "exit"
    THEN [w |-> [w1 EXCEPT !.seen = "exit"], out |-> "err",
          err |-> ProcessExitedError(Pid, st.code)]
    ELSE [w |-> switched(updateThreadList(w1, f)), out |-> "trap", err |-> NilErr]

\* trapWait of the build
trapWait(w, wpid, f) ==
  IF w.host = "mach" THEN trapWaitMach(w, wpid, f) ELSE trapWaitTurn(w, wpid)

\* the dispatch halting every thread on a temporary breakpoint as well
continueDispatchHaltsOnTemp(w, wpid, o, f) ==
  LET second(s2) == IF s2.err # NilErr THEN s2 ELSE R(Halt(s2.w, o).w, NilErr)
      first(s1) == IF s1.err # NilErr THEN s1 ELSE second(threadStep(s1.w, wpid, f))
      at(w1, pc) ==
        IF PCToFunc(pc) = "runtime.breakpoint" THEN first(threadStep(w1, wpid, f))
        ELSE IF HWAt(w1, pc) \/ swBP(w1, pc - 1) # NoBP THEN Halt(w1, o)
        ELSE R(w1, Err("UnrecognizedBreakpoint"))
  IN
  IF wpid \notin w.Threads THEN R(w, Err("NoThread"))
  ELSE IF RegistersFail(w, wpid)
    THEN R([w EXCEPT !.CurrentThread = wpid], Err("Registers"))
  ELSE at([w EXCEPT !.CurrentThread = wpid,
                    !.callLog.trap = [tid |-> wpid, pc |-> w.tpc[wpid]]],
          w.tpc[wpid])

\* Continue's fn after trapWait returned wpid
continueDispatch(w, wpid, o, f) ==
  LET second(s2) == IF s2.err # NilErr THEN s2 ELSE R(Halt(s2.w, o).w, NilErr)
      first(s1) == IF s1.err # NilErr THEN s1 ELSE second(threadStep(s1.w, wpid, f))
      at(w1, pc) ==
        IF PCToFunc(pc) = "runtime.breakpoint"
          THEN \* step twice to get back to user code
               first(threadStep(w1, wpid, f))
        ELSE IF HWAt(w1, pc)
          THEN IF ~BreakpointAt(w1, pc).Temp THEN Halt(w1, o) ELSE R(w1, NilErr)
        ELSE IF swBP(w1, pc - 1) # NoBP
          THEN IF ~swBP(w1, pc - 1).Temp THEN Halt(w1, o) ELSE R(w1, NilErr)
        ELSE R(w1, Err("UnrecognizedBreakpoint"))
  IN
  IF wpid \notin w.Threads THEN R(w, Err("NoThread"))
  ELSE IF RegistersFail(w, wpid)
    THEN R([w EXCEPT !.CurrentThread = wpid], Err("Registers"))
  ELSE at([w EXCEPT !.CurrentThread = wpid,
                    !.callLog.trap = [tid |-> wpid, pc |-> w.tpc[wpid]]],
          w.tpc[wpid])

\* Next's trap loop body after trapWait returned wpid: rewind the pc
nextRewind(w, wpid, f) ==
  IF w.CurrentThread = 0 THEN R(w, Err("Panic"))
  ELSE IF RegistersFail(w, w.CurrentThread) THEN R(w, Err("Registers"))
  ELSE IF Fails(f, "setpc", wpid) THEN R(w, Err("SetRegisters"))
  ELSE R(SetPC([w EXCEPT !.callLog.rewound =
                    [tid |-> wpid, at |-> w.tpc[wpid],
                     to |-> w.tpc[w.CurrentThread] - 1]],
               wpid, w.tpc[w.CurrentThread] - 1), NilErr)

\* DebuggedProcess.SwitchThread
switchThread(w, tid) ==
  IF tid \in w.Threads THEN R([w EXCEPT !.CurrentThread = tid], NilErr)
  ELSE R(w, Err("NoThread"))

\* DebuggedProcess.RequestManualStop
requestManualStop(w, o) ==
  LET RECURSIVE hl(_, _)
      hl(x, i) == IF i > Len(o) THEN x ELSE hl(threadHalt(x, o[i]).w, i + 1)
  IN [hl([w EXCEPT !.halt = TRUE], 1) EXCEPT !.running = FALSE]

(***************************************************************************)
(* Initial state: the controller has attached to a two-thread target.      *)
(* Thread 1 (the process id) is stopped in main.foo or in main.tail;       *)
(* thread 2 is parked in the runtime.                                      *)
(***************************************************************************)
Callers == {1, 2}

NoPlant == [called |-> FALSE, pc |-> 0, before |-> {}, temps |-> {}]

Attached ==
  /\ host = "ptrace"
  /\ mem = [a \in Addr |-> OrigByte(a)]
  /\ BreakPoints = [a \in Addr |-> NoBP]
  /\ \/ /\ HWBreakPoints = [i \in HWSlots |-> NoBP]
        /\ breakpointIDCounter = 0
     \/ \* the user has set four breakpoints in main.lib: no slot is free
        /\ HWBreakPoints = [i \in HWSlots |-> newBreakpoint(i + 1, Layout.lib + i, 0)]
        /\ breakpointIDCounter = 4
  /\ Threads = Tids
  /\ CurrentThread = Pid
  /\ Status = [t \in Tids |-> NoStatus]
  /\ running = FALSE
  /\ halt = FALSE
  /\ tpc \in {p \in [Tids -> Addr] :
                /\ p[1] \in {Layout.foo, Layout.foo + 2, Layout.foo + 3, Layout.tail}
                /\ p[2] \in {Layout.futex}}
  /\ tstate = [t \in Tids |-> "stopped"]
  /\ pend = [t \in Tids |-> NoStatus]
  /\ rf = [t \in Tids |-> FALSE]
  /\ onBp = [t \in Tids |-> 0]
  /\ firstExec = [t \in Tids |-> "none"]
  /\ stepLog = NoStepLog
  /\ callLog = NoCallLog
  /\ seen = "none"
  /\ stopReq = FALSE
  /\ cpc = [c \in Callers |-> "idle"]
  /\ ran = [c \in Callers |-> 0]
  /\ cnt = [c \in Callers |-> 0]
  /\ res = [c \in Callers |-> NilErr]
  /\ lastOp = [c \in Callers |-> "none"]
  /\ atCall = {}
  /\ planted = [t \in Tids |-> NoPlant]
  /\ faults = 0

Init == Attached /\ ops = 0

\* two controller threads share the last ConcOps calls of the budget
InitConc == Attached /\ ops = MaxOps - ConcOps

\* The controller has attached, on either host, to a target of one thread
\* that is about to spawn its second; ThreadOps calls are left.
InitThreads ==
  /\ host \in Hosts
  /\ mem = [a \in Addr |-> OrigByte(a)]
  /\ BreakPoints = [a \in Addr |-> NoBP]
  /\ HWBreakPoints = [i \in HWSlots |-> NoBP]
  /\ breakpointIDCounter = 0
  /\ Threads = {Pid}
  /\ CurrentThread = Pid
  /\ Status = [t \in Tids |-> NoStatus]
  /\ running = FALSE
  /\ halt = FALSE
  /\ tpc \in {p \in [Tids -> Addr] :
                /\ p[Pid] \in {Layout.foo + 3, Layout.main}
                /\ p[Child] = Layout.foo}
  /\ tstate = [t \in Tids |-> IF t = Pid THEN "stopped" ELSE "unborn"]
  /\ pend = [t \in Tids |-> NoStatus]
  /\ rf = [t \in Tids |-> FALSE]
  /\ onBp = [t \in Tids |-> 0]
  /\ firstExec = [t \in Tids |-> "none"]
  /\ stepLog = NoStepLog
  /\ callLog = NoCallLog
  /\ seen = "none"
  /\ stopReq = FALSE
  /\ cpc = [c \in Callers |-> "idle"]
  /\ ran = [c \in Callers |-> 0]
  /\ cnt = [c \in Callers |-> 0]
  /\ res = [c \in Callers |-> NilErr]
  /\ lastOp = [c \in Callers |-> "none"]
  /\ atCall = {}
  /\ planted = [t \in Tids |-> NoPlant]
  /\ faults = 0
  /\ ops = MaxOps - ThreadOps

(***************************************************************************)
(* Facade calls.                                                           *)
(***************************************************************************)
\* the backend operations that may be made to fail in one call
FaultKinds ==
  {NoFault} \cup {[kind |-> k, tid |-> t] : k \in {"setpc", "step", "resume"}, t \in Tids}

\* on the mach host the listing of the task's threads may fail as well
Faults ==
  IF host = "mach" THEN FaultKinds \cup {[kind |-> "threads", tid |-> 0]} ELSE FaultKinds

\* the state a facade call starts from: the per-call records are reset
Fresh ==
  [World EXCEPT !.stepLog = NoStepLog, !.callLog = NoCallLog,
                !.firstExec = [t \in Tids |-> "none"],
                !.planted = [t \in Tids |-> NoPlant],
                !.seen = "none", !.stopReq = FALSE]

\* a controller whose CurrentThread is nil makes no further call
CanCall(c) == cpc[c] = "idle" /\ ops < MaxOps /\ CurrentThread # 0

\* wait4, or the port set of the mach host, has something for trapWait from
\* wpid: a mach thread stopped by Halt raises no exception
Waitable(wpid) ==
  IF host = "mach"
    THEN pend[wpid].kind = "trap" \/ (wpid = Pid /\ pend[wpid].kind = "exit")
    ELSE pend[wpid] # NoStatus

\* f is injected only where it changes the outcome, within the budget
FaultOK(f, with, without) ==
  f # NoFault => (faults < MaxFaults /\ with # without)

Count(f) ==
  /\ ops' = ops + 1
  /\ faults' = IF f = NoFault THEN faults ELSE faults + 1

\* the caller returns e from the facade call op
Return(c, op, e) ==
  /\ cpc' = [cpc EXCEPT ![c] = "idle"]
  /\ res' = [res EXCEPT ![c] = e]
  /\ lastOp' = [lastOp EXCEPT ![c] = op]

\* the addresses of the breakpoints that are not temporary
UserBreakpoints ==
  {a \in Addr : BreakpointAt(World, a) # NoBP /\ ~BreakpointAt(World, a).Temp}

\* Break(addr)
BreakCall(c, a) ==
  LET done(b) == Install(b.w) /\ Return(c, "Break", b.err)
  IN
  /\ CanCall(c)
  /\ done(Break(Fresh, a))
  /\ Count(NoFault)
  /\ atCall' = {}
  /\ UNCHANGED << ran, cnt >>

\* Clear(addr)
ClearCall(c, a) ==
  LET done(x) ==
        /\ Install([x.w EXCEPT !.onBp = [t \in Tids |->
                      IF x.err = NilErr /\ x.w.onBp[t] = a THEN -a ELSE x.w.onBp[t]]])
        /\ Return(c, "Clear", x.err)
  IN
  /\ CanCall(c)
  /\ done(Clear(Fresh, a))
  /\ Count(NoFault)
  /\ atCall' = {}
  /\ UNCHANGED << ran, cnt >>

\* Step(): run(fn), fn steps every unblocked thread
StepCall(c, o, f) ==
  LET done(s, s0) ==
        /\ FaultOK(f, s, s0)
        /\ Install(runExit(s.w))
        /\ Return(c, "Step", runResult(s.err))
  IN
  /\ CanCall(c)
  /\ done(stepLoop(runEnter(Fresh), o, 1, f), stepLoop(runEnter(Fresh), o, 1, NoFault))
  /\ Count(f)
  /\ atCall' = UserBreakpoints
  /\ UNCHANGED << ran, cnt >>

\* Continue(), up to the call of run: resume every thread
ContinueCall(c, o, f) ==
  LET done(r, r0) ==
        /\ FaultOK(f, r, r0)
        /\ Install(r.w)
        /\ IF r.err # NilErr
             THEN Return(c, "Continue", r.err)
             ELSE /\ cpc' = [cpc EXCEPT ![c] = "cont_run"]
                  /\ UNCHANGED << res, lastOp >>
  IN
  /\ CanCall(c)
  /\ done(continueLoop(Fresh, o, 1, f), continueLoop(Fresh, o, 1, NoFault))
  /\ Count(f)
  /\ atCall' = UserBreakpoints
  /\ UNCHANGED << ran, cnt >>

\* Continue(): run sets the flags and calls fn
ContinueRun(c) ==
  /\ cpc[c] = "cont_run"
  /\ Install(runEnter(World))
  /\ cpc' = [cpc EXCEPT ![c] = "cont_wait"]
  /\ UNCHANGED << ran, cnt, res, lastOp, atCall, ops, faults >>

\* Continue(): wait4 returns a status to trapWait; fn dispatches a trap
ContinueWait(c, wpid, o, f) ==
  LET dispatched(d, d0) ==
        /\ FaultOK(f, d, d0)
        /\ Install(runExit(d.w))
        /\ Return(c, "Continue", runResult(d.err))
      turned(t, t0) ==
        CASE t.out = "again" ->
               /\ f = NoFault
               /\ Install(t.w)
               /\ UNCHANGED << cpc, res, lastOp >>
          [] t.out = "err" ->
               /\ f = NoFault
               /\ Install(runExit(t.w))
               /\ Return(c, "Continue", runResult(t.err))
          [] OTHER ->
               dispatched(continueDispatch(t.w, wpid, o, f),
                          continueDispatch(t0.w, wpid, o, NoFault))
  IN
  /\ cpc[c] = "cont_wait"
  /\ Waitable(wpid)
  /\ turned(trapWait(World, wpid, f), trapWait(World, wpid, NoFault))
  /\ faults' = IF f = NoFault THEN faults ELSE faults + 1
  /\ UNCHANGED << ran, cnt, atCall, ops >>

\* what Next's fn leaves when it returns e: the deferred cleanup, then run's
NextReturn(c, w, e) ==
  /\ Install(runExit(nextCleanup(w)))
  /\ Return(c, "Next", runResult(e))

\* Next(): run calls fn, which steps every thread to its next line
NextCall(c, o, f) ==
  LET halted(h) == NextReturn(c, h.w, h.err)
      looped(n, n0) ==
        /\ FaultOK(f, n, n0)
        /\ IF n.err # NilErr
             THEN NextReturn(c, n.w, n.err) /\ UNCHANGED << ran, cnt >>
           ELSE IF n.ran = 0
             THEN halted(Halt(n.w, o)) /\ UNCHANGED << ran, cnt >>
           ELSE /\ Install(n.w)
                /\ cpc' = [cpc EXCEPT ![c] = "next_wait"]
                /\ ran' = [ran EXCEPT ![c] = n.ran]
                /\ cnt' = [cnt EXCEPT ![c] = 0]
                /\ UNCHANGED << res, lastOp >>
  IN
  /\ CanCall(c)
  /\ looped(nextLoop(runEnter(Fresh), o, 1, f, 0),
            nextLoop(runEnter(Fresh), o, 1, NoFault, 0))
  /\ atCall' = UserBreakpoints
  /\ Count(f)

\* Next(): wait4 returns a status to trapWait; a trap is rewound and counted
NextWait(c, wpid, o, f) ==
  LET halted(h) == NextReturn(c, h.w, h.err)
      rewound(r, r0) ==
        /\ FaultOK(f, r, r0)
        /\ IF r.err # NilErr
             THEN NextReturn(c, r.w, r.err) /\ UNCHANGED cnt
           ELSE IF cnt[c] + 1 < ran[c]
             THEN /\ Install(r.w)
                  /\ cnt' = [cnt EXCEPT ![c] = cnt[c] + 1]
                  /\ UNCHANGED << cpc, res, lastOp >>
           ELSE /\ halted(Halt(r.w, o))
                /\ cnt' = [cnt EXCEPT ![c] = cnt[c] + 1]
      turned(t, t0) ==
        CASE t.out = "again" ->
               /\ f = NoFault
               /\ Install(t.w)
               /\ UNCHANGED << cpc, res, lastOp, cnt >>
          [] t.out = "err" ->
               /\ f = NoFault
               /\ NextReturn(c, t.w, t.err)
               /\ UNCHANGED cnt
          [] OTHER ->
               rewound(nextRewind(t.w, wpid, f), nextRewind(t0.w, wpid, NoFault))
  IN
  /\ cpc[c] = "next_wait"
  /\ Waitable(wpid)
  /\ turned(trapWait(World, wpid, f), trapWait(World, wpid, NoFault))
  /\ faults' = IF f = NoFault THEN faults ELSE faults + 1
  /\ UNCHANGED << ran, atCall, ops >>

\* SwitchThread(tid)
SwitchCall(c, tid) ==
  LET done(x) == Install(x.w) /\ Return(c, "SwitchThread", x.err)
  IN
  /\ CanCall(c)
  /\ done(switchThread(Fresh, tid))
  /\ Count(NoFault)
  /\ atCall' = {}
  /\ UNCHANGED << ran, cnt >>

\* RequestManualStop(), from a caller of its own
ManualStop(o) ==
  /\ ops < MaxOps
  /\ Install([requestManualStop(World, o) EXCEPT
               !.stopReq =
                 \/ stopReq
                 \/ /\ \E c \in Callers : cpc[c] = "cont_wait"
                    /\ \A t \in Tids : pend[t] = NoStatus
                    /\ Covered(World) = {},
               !.callLog.stopAsked =
                 \/ @
                 \/ \E c \in Callers : cpc[c] \in {"cont_run", "cont_wait"}])
  /\ ops' = ops + 1
  /\ UNCHANGED << cpc, ran, cnt, res, lastOp, atCall, faults >>

(***************************************************************************)
(* The target runs.                                                        *)
(***************************************************************************)
TargetExec(t, s) ==
  /\ tstate[t] = "running"
  /\ ~blocked(World, t)
  /\ Install(ExecOne(World, t, FALSE, s))
  /\ UNCHANGED << cpc, ran, cnt, res, lastOp, atCall, ops, faults >>

(***************************************************************************)
(* Specifications.                                                         *)
(***************************************************************************)
\* the statuses a thread may exit with where it stands
ExitCodes(t) == IF tpc[t] = Layout.exit THEN ExitStatuses ELSE {0}

Driver(c) ==
  \/ \E a \in UserAddrs : BreakCall(c, a)
  \/ \E a \in UserAddrs : ClearCall(c, a)
  \/ \E o \in Orders(Threads), f \in Faults : StepCall(c, o, f)
  \/ \E o \in Orders(Threads), f \in Faults : ContinueCall(c, o, f)
  \/ ContinueRun(c)
  \/ \E t \in Tids, o \in Orders(Threads), f \in Faults : ContinueWait(c, t, o, f)
  \/ \E o \in Orders(Threads), f \in Faults : NextCall(c, o, f)
  \/ \E t \in Tids, o \in Orders(Threads), f \in Faults : NextWait(c, t, o, f)

Stopper == \E o \in Orders(Threads) : ManualStop(o)

Target == \E t \in Tids : \E s \in ExitCodes(t) : TargetExec(t, s)

\* one controller thread makes the facade calls; RequestManualStop comes
\* from a second one
Next == Driver(1) \/ Stopper \/ Target

Spec == Init /\ [][Next]_vars

\* two controller threads make facade calls with nothing to order them
NextConc == Driver(1) \/ Driver(2) \/ Stopper \/ Target

SpecConc == InitConc /\ [][NextConc]_vars

Switcher == \E t \in Tids : SwitchCall(1, t)

\* one controller thread, which also switches the current thread, drives a
\* target that spawns its second thread
NextThreads == Driver(1) \/ Switcher \/ Stopper \/ Target

SpecThreads == InitThreads /\ [][NextThreads]_vars

(***************************************************************************)
(* Properties.                                                             *)
(***************************************************************************)
\* caller c is between facade calls and its last call was op
Returned(c, op) == cpc[c] = "idle" /\ lastOp[c] = op

\* C1: after process-wide Next returns, on every exit path, no breakpoint
\* with the Temp flag remains in the software map or in a hardware slot.
C1_NoTempAfterNext ==
  Returned(1, "Next") => TempAddrs(World) = {}

\* C2 (as a safety property of the blocked wait): once RequestManualStop has
\* found Continue blocked in its trap wait with no breakpoint set, the wait
\* has a stop status to return and halt is set; and when Continue has
\* returned, it returned nil and running is false.
C2_ManualStopEndsContinue ==
  stopReq =>
    /\ cpc[1] = "cont_wait" => (halt /\ \E t \in Tids : pend[t].kind = "stop")
    /\ Returned(1, "Continue") => (res[1] = NilErr /\ ~running /\ seen = "stop")

\* C3 as the claim states it: the byte at A is the trap byte if and only if
\* a software breakpoint is recorded at A.
C3_TrapByteIffBreakpoint ==
  (\A c \in Callers : cpc[c] = "idle") =>
    \A a \in Addr : (mem[a] = TrapByte) <=> (BreakPoints[a] # NoBP)

\* C3 (amended): between facade calls, at every address with a software
\* breakpoint the byte is the trap byte and the record holds the byte that
\* was there before the install; at every other address the byte is the one
\* loaded, which may itself be a trap instruction of the target.
C3_MemoryMatchesBreakpoints ==
  (\A c \in Callers : cpc[c] = "idle") =>
    \A a \in Addr :
      IF BreakPoints[a] # NoBP
        THEN /\ mem[a] = TrapByte
             /\ BreakPoints[a].Addr = a
             /\ BreakPoints[a].OriginalData = OrigByte(a)
        ELSE mem[a] = OrigByte(a)

\* a software breakpoint was set and cleared again: Clear succeeded with all
\* four hardware slots still taken and a fifth id handed out
C3_Witness ==
  /\ Returned(1, "Clear") /\ res[1] = NilErr
  /\ \A i \in HWSlots : HWBreakPoints[i] # NoBP
  /\ breakpointIDCounter > 4
  /\ \A a \in Addr : BreakPoints[a] = NoBP

\* C4: a thread resumed from a stop on a software breakpoint at A executes
\* the restored original instruction at A first, never the trap byte and
\* never another instruction.
C4_ResumesOnOriginalInstruction ==
  \A t \in Tids : firstExec[t] \in {"none", "orig"}

\* C5: once per-thread Step has cleared the software breakpoint at pc-1, a
\* breakpoint at that address is armed again when Step returns.
C5_StepRearmsBreakpoint ==
  stepLog.cleared # 0 => stepLog.armed

\* C6: when the trap wait of Continue saw the process exit with status s,
\* Continue returned ProcessExited{Pid, s} and running is false.
C6_ContinueReportsExit ==
  (Returned(1, "Continue") /\ seen = "exit") =>
    /\ res[1] = ProcessExitedError(Pid, Status[Pid].code)
    /\ Status[Pid].kind = "exit"
    /\ ~running

C6_Witness ==
  /\ Returned(1, "Continue") /\ seen = "exit"
  /\ res[1] = ProcessExitedError(Pid, 7)

\* C8: every address is covered by at most one breakpoint: never by a
\* hardware slot and the software map together, never by two slots.
C8_OneBreakpointPerAddress ==
  /\ \A a \in Addr : ~(HWAt(World, a) /\ BreakPoints[a] # NoBP)
  /\ \A i, j \in HWSlots :
       (i # j /\ HWBreakPoints[i] # NoBP /\ HWBreakPoints[j] # NoBP)
         => HWBreakPoints[i].Addr # HWBreakPoints[j].Addr

\* Step has cleared and re-armed a software breakpoint while all hardware
\* slots are taken
C8_Witness ==
  /\ stepLog.cleared # 0 /\ stepLog.armed
  /\ \A i \in HWSlots : HWBreakPoints[i] # NoBP
  /\ BreakPoints[stepLog.cleared] # NoBP

\* C9: Next never fails with BreakpointExists, and when it has succeeded
\* every breakpoint the user had set when it was called is still in place at
\* its address and is not temporary.
C9_UserBreakpointSurvivesNext ==
  Returned(1, "Next") =>
    /\ res[1].kind # "BreakPointExists"
    /\ res[1] = NilErr =>
         \A a \in atCall : /\ BreakpointAt(World, a) # NoBP
                           /\ BreakpointAt(World, a).Addr = a
                           /\ ~BreakpointAt(World, a).Temp

\* Next succeeded from foo's first line with a user breakpoint on a later
\* line of foo
C9_Witness ==
  /\ Returned(1, "Next") /\ res[1] = NilErr
  /\ planted[1].called /\ planted[1].pc = Layout.foo
  /\ (Layout.foo + 1) \in atCall

\* the rows per-thread Next is to plant on, from pc with `before` covered
RowsToPlant(pc, before) ==
  LET l0 == LocationInfoForPC(pc)
      start == IF l0.Delta < 0 THEN LocationInfoForFileLine(l0.Line) ELSE l0
  IN {a \in {LineRows[i].Address : i \in RowIdx} :
        /\ a > start.Address
        /\ a < FDEForPC(pc).end
        /\ a # pc
        /\ a \notin before}

\* C10 as the claim states it: the temporaries planted are exactly those on
\* the rows, plus one at the saved return address.
C10_PlantsRowsAndReturn ==
  \A t \in Tids : planted[t].called =>
    planted[t].temps = RowsToPlant(planted[t].pc, planted[t].before)
                         \cup {ReturnAddressFromOffset(planted[t].pc)}

\* C10 (amended): the temporaries planted are exactly those on the rows,
\* plus one at the saved return address unless a breakpoint covers it.
C10_PlantsRowsAndFreeReturn ==
  \A t \in Tids : planted[t].called =>
    planted[t].temps = RowsToPlant(planted[t].pc, planted[t].before)
                         \cup ({ReturnAddressFromOffset(planted[t].pc)} \ planted[t].before)

\* Next from the last line of foo planted one temporary, at the return address
C10_Witness ==
  /\ planted[1].called /\ planted[1].pc = Layout.foo + 3
  /\ planted[1].temps = {Layout.main}

\* the breakpoint Continue's dispatch is to match for a trap at pc: the
\* hardware breakpoint at pc, else the software breakpoint at pc-1
DispatchMatch(pc) ==
  IF HWAt(World, pc) THEN BreakpointAt(World, pc) ELSE swBP(World, pc - 1)

\* C11: when Continue has dispatched a trap at a pc outside
\* runtime.breakpoint, it matched the hardware breakpoint at pc, else the
\* software breakpoint at pc-1, else it returned UnrecognizedBreakpoint; on a
\* match it returned success, and Halt was called on every thread of the
\* registry if the breakpoint is not temporary, on none if it is.
C11_DispatchOrderAndHalt ==
  (/\ Returned(1, "Continue")
   /\ callLog.trap.pc # 0
   /\ PCToFunc(callLog.trap.pc) # "runtime.breakpoint") =>
     IF DispatchMatch(callLog.trap.pc) = NoBP
       THEN res[1] = Err("UnrecognizedBreakpoint") /\ callLog.halts = {}
     ELSE IF DispatchMatch(callLog.trap.pc).Temp
       THEN res[1] = NilErr /\ callLog.halts = {}
     ELSE res[1] = NilErr /\ callLog.halts = Threads

\* Continue returned success on a temporary hardware breakpoint a Next had
\* left behind, with the other thread still running
C11_Witness ==
  /\ Returned(1, "Continue") /\ res[1] = NilErr
  /\ callLog.trap.pc # 0
  /\ HWAt(World, callLog.trap.pc)
  /\ BreakpointAt(World, callLog.trap.pc).Temp
  /\ callLog.halts = {}
  /\ \E t \in Threads : tstate[t] = "running"

\* C14: when the single step of a per-thread Step has failed, with no
\* breakpoint traversed or with the breakpoint at pc-1 cleared and armed
\* again, the Step that made it returned an error.
C14_StepFailureReported ==
  (Returned(1, "Step") /\ stepLog.path = "step" /\ stepLog.armed) =>
    res[1] # NilErr

\* C15: when Continue, Step or Next has returned an error other than
\* ProcessExited, no thread of the registry is running and every breakpoint
\* the user had set when the call was made is still in place.
C15_ErrorLeavesTargetStopped ==
  (/\ cpc[1] = "idle"
   /\ lastOp[1] \in {"Continue", "Step", "Next"}
   /\ res[1] # NilErr
   /\ res[1].kind # "ProcessExited") =>
     /\ \A t \in Threads : tstate[t] # "running"
     /\ \A a \in atCall : BreakpointAt(World, a) # NoBP

\* C16: when a driver call in which DebuggedProcess.Halt ran has returned,
\* Halt was called on every thread of the registry and the halt flag is set.
C16_HaltSetsFlag ==
  (cpc[1] = "idle" /\ callLog.halts # {}) =>
    (callLog.halts = Threads /\ halt)

\* the breakpoints installed, hardware and software
Installed ==
  ({HWBreakPoints[i] : i \in HWSlots} \cup {BreakPoints[a] : a \in Addr}) \ {NoBP}

\* C17: a breakpoint of the user that a driver call has traversed (Step
\* cleared it and armed it again) has the id it had before, and no two
\* installed breakpoints share an id.
C17_BreakpointIdStable ==
  /\ (/\ stepLog.cleared \in atCall
      /\ BreakpointExists(World, stepLog.cleared)) =>
       BreakpointAt(World, stepLog.cleared).ID = stepLog.id
  /\ \A b1, b2 \in Installed : b1.ID = b2.ID => b1 = b2

C13_CurrentThreadRegistered ==
  CurrentThread \in Threads

\* C19: when Continue has returned for a trap after its wait loop took the
\* clone event of the second thread, the registry holds both thread ids and
\* both entries have a recorded wait status.
C19_BothThreadsHaveStatus ==
  (Returned(1, "Continue") /\ seen = "trap" /\ callLog.cloned # 0) =>
    /\ Threads = {Pid, Child}
    /\ \A t \in Threads : Status[t] # NoStatus

\* C20: the pc process-wide Next writes to a thread that trapped is that
\* thread's own pc at the trap minus one.
C20_RewindUsesTrappingThread ==
  callLog.rewound.tid # 0 =>
    callLog.rewound.to = callLog.rewound.at - 1

\* C21: while process-wide Next waits for trap events, the number of events
\* it waits for is the number of threads whose per-thread Next succeeded: a
\* thread that was only continued, or whose Next failed with no such process,
\* is not counted.
C21_WaitsOnlyForSteppedThreads ==
  \A c \in Callers :
    cpc[c] = "next_wait" => ran[c] = Cardinality(callLog.stepped)

\* C22: once a wait has reported that a thread other than the main thread
\* exited, that thread is no longer in the thread registry.
C22_ExitedThreadLeavesRegistry ==
  \A t \in Tids \ {Pid} : Status[t].kind = "exit" => t \notin Threads

\* C23: a stop requested while Continue is between its thread loop and its
\* return is not lost: as long as Continue is still in its trap wait, a stop
\* status that trapWait will recognise as a manual stop (halt is set), or
\* another event that ends the call, is there for the wait to return.
C23_StopRequestNotLost ==
  (callLog.stopAsked /\ cpc[1] = "cont_wait") =>
    \E t \in Tids :
      \/ pend[t].kind = "stop" /\ halt
      \/ pend[t].kind = "trap"
      \/ pend[t].kind = "exit" /\ t = Pid

\* C24: per-thread Continue and Step rewind a thread to pc-1, clearing the
\* software breakpoint there, only when the thread's last stop was the trap
\* of the breakpoint at pc-1.
C24_RewindOnlyAfterBreakpointTrap ==
  stepLog.cleared # 0 => stepLog.hit

\* C7: at most one caller is inside the function run was given: no two
\* driver calls are blocked in their trap waits together.
C7_OneCallerInsideRun ==
  Cardinality({c \in Callers : cpc[c] \in {"cont_wait", "next_wait"}}) <= 1

====
